---- MODULE Spec2Model ----
(***************************************************************************)
(* The print job pipeline of brother-label-api: BrotherQLHandler           *)
(* (src/brother_ql_handler.py).  A job is one call of print_text,          *)
(* print_image or print_pdf; it runs as a sequence of steps, one per       *)
(* stage of the source, and every stage that calls into Pillow, PyMuPDF or *)
(* the vendor driver may raise.                                            *)
(*                                                                         *)
(* Python values: None is the empty tuple, an optional value v is <<v>>.   *)
(* A dict is a function whose DOMAIN is the set of keys it holds, so       *)
(* dict.get(k, default) and "k in d" are modelled as they work.            *)
(***************************************************************************)
EXTENDS Integers, Sequences, FiniteSets, TLC

\* ------------------------------------------------------------- bounds
\* Largest page count of a submitted document.
MaxPages == 3
\* Largest page count of a document in the unit specification.
UnitPages == 1
\* Largest page count of a document in the concurrent specification.
PairPages == 2
\* Largest number of printers in the configuration store.
MaxPrinters == 2

\* --------------------------------------------------------- Python values
None == <<>>
Some(v) == <<v>>
EmptyDict == <<>>

\* dict.get(key, default)
Get(d, key, default) == IF key \in DOMAIN d THEN d[key] ELSE default

\* "if port:" -- None and 0 are falsy
PortTruthy(port) == port # None /\ port[1] # 0

\* "if not address:" -- None and "" are falsy
AddressTruthy(address) == address # None /\ address[1] # ""

\* f"{address}" and f"{port}"
FormatAddress(address) == IF address = None THEN "None" ELSE address[1]
FormatPort(port) == IF port = None THEN "None" ELSE ToString(port[1])

\* str.startswith(prefix)
StartsWith(s, prefix) ==
    Len(s) >= Len(prefix) /\ SubSeq(s, 1, Len(prefix)) = prefix

\* --------------------------------------------- connection identifier
\* The port is appended whenever it is not None.
_construct_identifier_port_not_none(connection, address, port) ==
    IF connection = "network"
    THEN << IF port # None
            THEN "tcp://" \o FormatAddress(address) \o ":" \o FormatPort(port)
            ELSE "tcp://" \o FormatAddress(address),
            "network" >>
    ELSE IF connection = "usb"
    THEN << "usb://" \o FormatAddress(address), "pyusb" >>
    ELSE IF connection = "serial"
    THEN << "file://" \o FormatAddress(address), "linux_kernel" >>
    ELSE << "tcp://" \o FormatAddress(address), "network" >>

\* BrotherQLHandler._construct_identifier: (identifier, backend)
_construct_identifier(connection, address, port) ==
    IF connection = "network"
    THEN << IF PortTruthy(port)
            THEN "tcp://" \o FormatAddress(address) \o ":" \o FormatPort(port)
            ELSE "tcp://" \o FormatAddress(address),
            "network" >>
    ELSE IF connection = "usb"
    THEN << "usb://" \o FormatAddress(address), "pyusb" >>
    ELSE IF connection = "serial"
    THEN << "file://" \o FormatAddress(address), "linux_kernel" >>
    ELSE << "tcp://" \o FormatAddress(address), "network" >>

\* ------------------------------------------------------ bitmaps
\* A PIL image: size, mode, the rotation its content has undergone and the
\* transform operations applied to it, in order.
NoImage == [w |-> 0, h |-> 0, mode |-> "", rot |-> 0, ops |-> <<>>]

NewImage(size, mode) ==
    [w |-> size[1], h |-> size[2], mode |-> mode, rot |-> 0, ops |-> <<>>]

\* Image.rotate(angle, expand=True) for a multiple of 90 degrees
Rotate(image, angle) ==
    [image EXCEPT !.w = IF angle \in {90, 270} THEN image.h ELSE image.w,
                  !.h = IF angle \in {90, 270} THEN image.w ELSE image.h,
                  !.rot = (image.rot + angle) % 360,
                  !.ops = Append(image.ops, "rotate")]

\* "if rotate in [90, 180, 270]: image = image.rotate(rotate, expand=True)"
RotateIfNeeded(image, rotate) ==
    IF rotate \in {90, 180, 270} THEN Rotate(image, rotate) ELSE image

\* Image.convert('1')
Convert1(image) ==
    [image EXCEPT !.mode = "1", !.ops = Append(image.ops, "convert")]

\* The canvas grows by the margin once, not on both sides.
_add_margin_one_side(image, margin) ==
    [image EXCEPT !.w = image.w + margin,
                  !.h = image.h + margin,
                  !.mode = "1",
                  !.ops = Append(image.ops, "margin")]

\* BrotherQLHandler._add_margin
_add_margin(image, margin) ==
    [image EXCEPT !.w = image.w + (margin * 2),
                  !.h = image.h + (margin * 2),
                  !.mode = "1",
                  !.ops = Append(image.ops, "margin")]

\* "if margin > 0: image = self._add_margin(image, margin)"
AddMarginIfNeeded(image, margin) ==
    IF margin > 0 THEN _add_margin(image, margin) ELSE image

\* The margin is added first, then the bitmap is rotated and converted.
Transform_margin_first(image, rotate, margin) ==
    Convert1(RotateIfNeeded(AddMarginIfNeeded(image, margin), rotate))

\* The transform of print_image and of one print_pdf page:
\* rotate, convert to black and white, add margin.
Transform(image, rotate, margin) ==
    AddMarginIfNeeded(Convert1(RotateIfNeeded(image, rotate)), margin)

\* ------------------------------------------------------ result dicts
\* {'success': False, 'error': error}
Failure(error) == ("success" :> FALSE) @@ ("error" :> Some(error))

\* {'success': False, 'error': error, 'error_type': error_type}
TypedFailure(error, error_type) ==
    Failure(error) @@ ("error_type" :> Some(error_type))

\* {'success': True, 'message': message}
Success(message) == ("success" :> TRUE) @@ ("message" :> message)

\* One entry of print_pdf's results list
PageEntry(page, success, error) ==
    [page |-> page, success |-> success, error |-> error]

\* ------------------------------------------------------ dispatch
\* self.supported_pt_models
supported_pt_models ==
    {"PT-P710BT", "PT-E550W", "PT-P750W", "PT-P900", "PT-P900W", "PT-P950NW",
     "PT-H500", "PT-P700", "PT-P300BT"}

\* "is_ql_model = any(model.startswith(ql) for ql in ['QL-'])"
is_ql_model(model) == \E ql \in {"QL-"} : StartsWith(model, ql)

\* The if/elif/else of print_image that picks the library
print_image_branch(model, brother_ql, labelprinterkit) ==
    IF is_ql_model(model) /\ brother_ql THEN "brother_ql"
    ELSE IF ~is_ql_model(model) /\ labelprinterkit THEN "labelprinterkit"
    ELSE "raw"

\* The if/elif/else of print_pdf's page loop that picks the library
print_pdf_branch(model, brother_ql, labelprinterkit) ==
    IF is_ql_model(model) /\ brother_ql THEN "brother_ql"
    ELSE IF ~is_ql_model(model) /\ labelprinterkit THEN "labelprinterkit"
    ELSE "raw"

\* "rotate='auto' if rotate == 0 else str(rotate)" of _print_with_brother_ql
ConvertRotate(rotate) == IF rotate = 0 THEN "auto" ELSE ToString(rotate)

\* ------------------------------------------------------ inputs
\* A key of a printer record is absent (<<>>) or present with a value (<<v>>).
Entry(key, choice) == IF choice = <<>> THEN EmptyDict ELSE key :> choice[1]

Printer(connection, address, port, model) ==
    Entry("id", <<"office-printer">>)
    @@ Entry("connection", connection) @@ Entry("address", address)
    @@ Entry("port", port) @@ Entry("model", model) @@ Entry("label_size", <<"29">>)

Connections == {<<>>, <<"network">>, <<"usb">>, <<"serial">>, <<"bluetooth">>}
Ports == {<<>>, <<None>>, <<Some(0)>>, <<Some(9101)>>}
Models == {<<>>, <<"QL-820NWB">>, <<"PT-P710BT">>, <<"TD-4000">>}

\* Every combination of connection, port and model at address "X", records
\* with no address, a null address and an empty address, and records whose
\* address is an IPv6 literal.
AllPrinters ==
    { Printer(c, <<Some("X")>>, p, m) : c \in Connections, p \in Ports, m \in Models }
    \cup { Printer(<<"network">>, a, <<Some(9101)>>, <<"QL-820NWB">>) :
           a \in {<<>>, <<None>>, <<Some("")>>} }
    \cup { Printer(c, <<Some("fe80::abcd")>>, p, <<"QL-820NWB">>) :
           c \in {<<"network">>, <<"bluetooth">>}, p \in {<<>>, <<Some(0)>>} }

\* A QL printer on the network, a PT printer on USB, a printer of another
\* family on an unknown connection type, a record with no address.
SomePrinters ==
    { Printer(<<"network">>, <<Some("X")>>, <<Some(9101)>>, <<"QL-820NWB">>),
      Printer(<<"usb">>, <<Some("X")>>, <<>>, <<"PT-P710BT">>),
      Printer(<<"bluetooth">>, <<Some("X")>>, <<Some(9101)>>, <<"TD-4000">>),
      Printer(<<"network">>, <<>>, <<>>, <<"QL-820NWB">>) }

Sizes == {<<2, 3>>}

\* ------------------------------------------------------ requests
\* jsonify(body), status
Response(status, body) == [status |-> status, body |-> body]

\* The request goes on to the next stage.
Pass == Response(0, EmptyDict)

\* "if not x:" for a string that may be None
Truthy(x) == x # None /\ x[1] # ""

\* d.get(key) of a dict whose values are strings: None when the key is absent
Field(d, key) == IF key \in DOMAIN d THEN Some(d[key]) ELSE None

\* The "api_keys" list of the configuration file
api_keys_config ==
    << [name |-> Some("prod"), key |-> Some("k-prod")],
       [name |-> None, key |-> Some("k-unnamed")],
       [name |-> Some("keyless"), key |-> None] >>

\* The map built from every item that has a key, named or not.
_build_api_key_map_unnamed(config) ==
    LET kept == {i \in 1..Len(config) : Truthy(config[i].key)}
    IN [k \in {config[i].key[1] : i \in kept} |-> "unnamed"]

\* PrinterManager._build_api_key_map: the items with a key and a name
_build_api_key_map(config) ==
    LET kept == {i \in 1..Len(config) : Truthy(config[i].key) /\ Truthy(config[i].name)}
    IN [k \in {config[i].key[1] : i \in kept} |->
           LET last == CHOOSE i \in kept :
                          /\ config[i].key[1] = k
                          /\ \A n \in kept : config[n].key[1] = k => n <= i
           IN config[last].name[1]]

\* PrinterManager.validate_api_key
validate_api_key(api_key_map, api_key) == api_key \in DOMAIN api_key_map

\* PrinterManager.get_printer: the first printer whose id or name is
\* printer_id, None when there is none
get_printer(printers, printer_id) ==
    LET hits == {i \in 1..Len(printers) :
                    \/ Field(printers[i], "id") = printer_id
                    \/ Field(printers[i], "name") = printer_id}
    IN IF hits = {} THEN None
       ELSE printers[CHOOSE i \in hits : \A k \in hits : i <= k]

\* A request: its route, its X-API-Key header (None when absent), its JSON
\* body (None when absent, a dict otherwise) and the telemetry call that
\* raises while it is served ("none", one stage, or "always").
Request(route, api_key, data, telemetry) ==
    [route |-> route, api_key |-> api_key, data |-> data, telemetry |-> telemetry]

\* A JSON body: printer_id absent (<<>>) or given, and the payload keys
Body(printer_id, keys) == Entry("printer_id", printer_id) @@ [k \in keys |-> "..."]

PayloadKeys == {"text", "image_base64", "pdf_base64"}

\* The requests that pass every check of the front door, one of each kind
ValidRequests ==
    { Request("/api/print", Some("k-prod"), Some(Body(<<"office-printer">>, {k})), "none") :
        k \in PayloadKeys }

\* telemetry.record_*: the call of this stage raises
TelemetryRaises(request, stage) == request.telemetry \in {stage, "always"}

\* {'error': text}
ErrorBody(text) == "error" :> text

\* Flask's handler of an exception that left the view: internal_error
internal_error == Response(500, ErrorBody("Internal server error"))

\* require_api_key: the decorator's own answer, or Pass when it calls the
\* route's function
require_api_key(request) ==
    IF ~Truthy(request.api_key)
    THEN IF TelemetryRaises(request, "error") THEN internal_error
         ELSE Response(401, ErrorBody("API key is missing"))
    ELSE IF ~validate_api_key(_build_api_key_map(api_keys_config), request.api_key[1])
    THEN IF TelemetryRaises(request, "error") THEN internal_error
         ELSE Response(403, ErrorBody("Invalid API key"))
    ELSE Pass

\* "except Exception as e" of print_label: the failure is recorded and
\* answered; a recording call that raises here leaves the view
print_label_except(request, e) ==
    IF TelemetryRaises(request, "except") THEN internal_error
    ELSE Response(500, ErrorBody(e))

\* The checks of the body with the printer lookup left out.
print_label_validate_unlooked(request, printers) ==
    IF request.data = None \/ DOMAIN request.data[1] = {}
    THEN Response(400, ErrorBody("No JSON data provided"))
    ELSE IF ~Truthy(Field(request.data[1], "printer_id"))
    THEN Response(400, ErrorBody("printer_id is required"))
    ELSE Pass

\* print_label: "if not data", "if not printer_id", "if not printer"
print_label_validate(request, printers) ==
    IF request.data = None \/ DOMAIN request.data[1] = {}
    THEN Response(400, ErrorBody("No JSON data provided"))
    ELSE IF ~Truthy(Field(request.data[1], "printer_id"))
    THEN Response(400, ErrorBody("printer_id is required"))
    ELSE IF get_printer(printers, Field(request.data[1], "printer_id")) = None
    THEN Response(404, ErrorBody("Printer " \o request.data[1]["printer_id"] \o " not found"))
    ELSE Pass

\* The if/elif/else of print_label that picks the handler
print_label_kind(data) ==
    IF "text" \in DOMAIN data THEN "text"
    ELSE IF "image_base64" \in DOMAIN data THEN "image"
    ELSE IF "pdf_base64" \in DOMAIN data THEN "pdf"
    ELSE "unknown"

\* print_label up to the handler call: its answer when it returns before
\* calling a handler, Pass when it calls one
print_label_before(request, printers) ==
    LET rejected == print_label_validate(request, printers) IN
    IF rejected # Pass
    THEN IF TelemetryRaises(request, "error")
         THEN print_label_except(request, "record_error failed") ELSE rejected
    ELSE IF TelemetryRaises(request, "attempt")
    THEN print_label_except(request, "record_print_attempt failed")
    ELSE IF print_label_kind(request.data[1]) = "unknown"
    THEN IF TelemetryRaises(request, "error")
         THEN print_label_except(request, "record_error failed")
         ELSE Response(400, ErrorBody("Either text, image_base64, or pdf_base64 is required"))
    ELSE Pass

\* The request reaches the handler call of `kind` for the printer that the
\* configuration holds.
Accepted(request, printer, kind) ==
    /\ request.route = "/api/print"
    /\ require_api_key(request) = Pass
    /\ print_label_before(request, <<printer>>) = Pass
    /\ print_label_kind(request.data[1]) = kind

\* The inputs of the document specification: documents of up to MaxPages pages
\* on a few printers.
DocumentInputs ==
    [printers |-> SomePrinters, rotations |-> {0, 90}, margins |-> {0, 2},
     cuts |-> {TRUE, FALSE}, pages |-> MaxPages, kinds |-> {"text", "image", "pdf"},
     requests |-> ValidRequests]

\* The inputs of the unit specification: every printer record and option,
\* documents of up to UnitPages pages.
UnitInputs ==
    [printers |-> AllPrinters, rotations |-> {0, 90, 180, 270, 45},
     margins |-> {0, 2}, cuts |-> {TRUE}, pages |-> UnitPages,
     kinds |-> {"text", "image", "pdf"}, requests |-> ValidRequests]

\* Two requests served at the same time, each on its own thread
ThreadPair == {1, 2}

\* The inputs of the concurrent specification.  The first request is a
\* document of up to PairPages pages for the QL printer; the second is a job
\* of any kind, its document of up to UnitPages pages, for the same printer
\* or for a PT printer.
FirstInputs ==
    [printers |-> { Printer(<<"network">>, <<Some("X")>>, <<Some(9101)>>, <<"QL-820NWB">>) },
     rotations |-> {0}, margins |-> {0}, cuts |-> {TRUE}, pages |-> PairPages,
     kinds |-> {"pdf"}, requests |-> ValidRequests]
SecondInputs ==
    [printers |-> { Printer(<<"network">>, <<Some("X")>>, <<Some(9101)>>, <<"QL-820NWB">>),
                    Printer(<<"usb">>, <<Some("X")>>, <<>>, <<"PT-P710BT">>) },
     rotations |-> {0}, margins |-> {0}, cuts |-> {TRUE}, pages |-> UnitPages,
     kinds |-> {"text", "image", "pdf"}, requests |-> ValidRequests]
PairInputs == [t \in ThreadPair |-> IF t = 1 THEN FirstInputs ELSE SecondInputs]

\* Every request: the four routes, a missing, empty, configured, unnamed or
\* unknown key, no body or a body with any printer_id and any payload keys,
\* and any one recording call, or all of them, raising.
Routes == {"/health", "/api/printers", "/api/printers/<printer_id>", "/api/print"}
AllRequests ==
    { Request(route, api_key, data, telemetry) :
        route \in Routes,
        api_key \in {None, Some(""), Some("k-prod"), Some("k-unnamed"), Some("k-other")},
        data \in {None} \cup
                 { Some(Body(printer_id, keys)) :
                     printer_id \in {<<>>, <<"">>, <<"office-printer">>, <<"nowhere">>},
                     keys \in SUBSET PayloadKeys },
        telemetry \in {"none", "error", "attempt", "generation", "outcome", "always"} }

\* The inputs of the run-to-completion specification: jobs of every kind,
\* documents of up to MaxPages pages, on a QL printer, a PT printer and a
\* printer with no address.
SyncInputs ==
    [printers |-> { Printer(<<"network">>, <<Some("X")>>, <<Some(9101)>>, <<"QL-820NWB">>),
                    Printer(<<"usb">>, <<Some("X")>>, <<>>, <<"PT-P710BT">>),
                    Printer(<<"network">>, <<>>, <<>>, <<"QL-820NWB">>) },
     rotations |-> {0}, margins |-> {0}, cuts |-> {TRUE}, pages |-> MaxPages,
     kinds |-> {"text", "image", "pdf"}, requests |-> ValidRequests]

\* The inputs of the front door specification: every request, for a
\* configuration that holds one printer, QL or PT, documents of up to
\* UnitPages pages.
DoorInputs ==
    [printers |-> { Printer(<<"network">>, <<Some("X")>>, <<Some(9101)>>, <<"QL-820NWB">>),
                    Printer(<<"usb">>, <<Some("X")>>, <<>>, <<"PT-P710BT">>) },
     rotations |-> {0}, margins |-> {0}, cuts |-> {TRUE}, pages |-> UnitPages,
     kinds |-> {"text", "image", "pdf"}, requests |-> AllRequests]

\* Payloads of the three job kinds.  An image payload is a base64 text that
\* may be malformed, of bytes that may not decode to an image; a document is
\* malformed, or has `pages` pages of which `bad_pages` fail to rasterize.
TextPayloads == [kind : {"text"}, bbox : Sizes]
Picture(base64, decodable, size) ==
    [kind |-> "image", base64 |-> base64, decodable |-> decodable, size |-> size,
     rot |-> 0, ops |-> <<>>]
ImagePayloads ==
    { Picture(FALSE, FALSE, <<0, 0>>), Picture(TRUE, FALSE, <<0, 0>>) }
    \cup { Picture(TRUE, TRUE, s) : s \in Sizes }
Document(base64, opens, pages, bad_pages, size) ==
    [kind |-> "pdf", base64 |-> base64, opens |-> opens, pages |-> pages,
     bad_pages |-> bad_pages, size |-> size]
PdfPayloads(pages) ==
    { Document(FALSE, FALSE, 0, {}, <<0, 0>>), Document(TRUE, FALSE, 0, {}, <<0, 0>>) }
    \cup UNION { { Document(TRUE, TRUE, n, bad, s) : s \in Sizes, bad \in SUBSET (1..n) } :
                 n \in 0..pages }

Threads == {1}

\* ------------------------------------------------------ state
VARIABLES
    PDF_SUPPORT,          \* module flag: PyMuPDF imported
    has_brother_ql,       \* handler flag: brother_ql imported
    has_labelprinterkit,  \* handler flag: labelprinterkit imported
    job,                  \* per request thread: the frame of the running job
    log,                  \* per request thread: the stages run, in order
    device,               \* instruction streams the transport delivered
    printer_manager       \* the printers of the configuration, and the last
                          \* add_printer or remove_printer call with its result

vars == <<PDF_SUPPORT, has_brother_ql, has_labelprinterkit, job, log, device,
          printer_manager>>

IdleJob ==
    [pc |-> "idle", entry |-> "none", printer |-> EmptyDict,
     payload |-> [kind |-> "none"],
     arg_rotate |-> 0, arg_margin |-> 0,
     rotate |-> 0, cut |-> TRUE, margin |-> 0,
     image |-> NoImage,
     page_count |-> 0, page_num |-> 0, results |-> <<>>,
     successful_pages |-> 0, failed_pages |-> 0,
     identifier |-> "", backend |-> "", branch |-> "none", call |-> EmptyDict,
     page_result |-> EmptyDict, result |-> EmptyDict, raised |-> FALSE,
     response |-> EmptyDict, request |-> EmptyDict, view |-> "none"]

\* No add_printer or remove_printer call has been made.
NoCall == [op |-> "none", arg |-> EmptyDict, before |-> <<>>, result |-> FALSE]

\* The state when the server starts to serve requests on the threads T
InitOf(T) ==
    /\ PDF_SUPPORT \in BOOLEAN
    /\ has_brother_ql \in BOOLEAN
    /\ has_labelprinterkit \in BOOLEAN
    /\ job = [t \in T |-> IdleJob]
    /\ log = [t \in T |-> <<>>]
    /\ device = <<>>
    /\ printer_manager = [printers |-> <<>>, last |-> NoCall]

Init == InitOf(Threads)

Env == <<PDF_SUPPORT, has_brother_ql, has_labelprinterkit, printer_manager>>

Event(t, ev, page) == [t |-> t, ev |-> ev, page |-> page]

\* The log after thread t ran stage ev on unit `page`
Logged(t, ev, page) == [log EXCEPT ![t] = Append(@, Event(t, ev, page))]

\* The job returns `result` to its caller.
Return(j, result) == [j EXCEPT !.pc = "returned", !.result = result]

\* An exception leaves the job's entry point uncaught.
Raise(j, e) == [j EXCEPT !.pc = "raised", !.raised = TRUE]

\* "except Exception as e" of print_text
print_text_except(j, e) == Return(j, Failure("Failed to print text: " \o e))

\* ------------------------------------------------------ print_pdf
\* The failure to open the document is reported as a document of no pages.
print_pdf_except_summarised(j, e) ==
    Return(j, TypedFailure("Failed to process PDF: " \o e, "pdf_processing_error")
              @@ ("pages_total" :> 0) @@ ("pages_successful" :> 0)
              @@ ("pages_failed" :> 0) @@ ("page_results" :> <<>>))

\* "except Exception as e" of print_pdf's outer try
print_pdf_except(j, e) ==
    Return(j, TypedFailure("Failed to process PDF: " \o e, "pdf_processing_error"))

\* The for loop goes round again without moving to the next page.
NextIteration_same_page(j) ==
    IF Len(j.results) < j.page_count
    THEN [j EXCEPT !.pc = "page_render"]
    ELSE [j EXCEPT !.pc = "pdf_close"]

\* The for loop moves to the next page, or ends.
NextIteration(j) ==
    IF j.page_num + 1 < j.page_count
    THEN [j EXCEPT !.page_num = j.page_num + 1, !.pc = "page_render"]
    ELSE [j EXCEPT !.pc = "pdf_close"]

\* The page's failure is recorded but not counted.
print_pdf_page_except_uncounted(j, e) ==
    NextIteration(
        [j EXCEPT !.results = Append(j.results, PageEntry(j.page_num + 1, FALSE, Some(e)))])

\* The page's failure is recorded and ends the loop.
print_pdf_page_except_abort(j, e) ==
    [j EXCEPT !.results = Append(j.results, PageEntry(j.page_num + 1, FALSE, Some(e))),
              !.failed_pages = j.failed_pages + 1,
              !.pc = "pdf_close"]

\* "except Exception as e" of the page loop's try
print_pdf_page_except(j, e) ==
    NextIteration(
        [j EXCEPT !.results = Append(j.results, PageEntry(j.page_num + 1, FALSE, Some(e))),
                  !.failed_pages = j.failed_pages + 1])

\* The page loop without its address test: the page goes on to a driver.
print_pdf_no_address_dispatched(j) ==
    [j EXCEPT !.identifier = "tcp://None", !.backend = "network", !.pc = "page_dispatch"]

\* "if not address:" of the page loop: record the page as failed, continue
print_pdf_no_address(j) ==
    NextIteration(
        [j EXCEPT !.results = Append(j.results,
                      PageEntry(j.page_num + 1, FALSE, Some("Printer address not specified"))),
                  !.failed_pages = j.failed_pages + 1])

\* A failed page is dispatched again instead of being recorded.
print_pdf_track_retry(j) ==
    IF j.page_result["success"]
    THEN NextIteration(
           [j EXCEPT !.results = Append(j.results, PageEntry(j.page_num + 1, TRUE, None)),
                     !.successful_pages = j.successful_pages + 1])
    ELSE [j EXCEPT !.pc = "page_dispatch"]

\* "Track result for this page" and the two counters
print_pdf_track(j) ==
    NextIteration(
        [j EXCEPT !.results = Append(j.results,
                      PageEntry(j.page_num + 1, j.page_result["success"],
                                IF ~j.page_result["success"]
                                THEN Get(j.page_result, "error", None) ELSE None)),
                  !.successful_pages = IF j.page_result["success"] THEN @ + 1 ELSE @,
                  !.failed_pages = IF j.page_result["success"] THEN @ ELSE @ + 1])

\* The summary is attached to every result, failed pages or not.
print_pdf_result_always_summarised(j) ==
    ("success" :> (j.failed_pages = 0))
    @@ ("pages_total" :> j.page_count)
    @@ ("pages_successful" :> j.successful_pages)
    @@ ("pages_failed" :> j.failed_pages)
    @@ ("page_results" :> j.results)
    @@ ("error" :> Some(ToString(j.failed_pages) \o " of " \o ToString(j.page_count)
                        \o " pages failed to print"))
    @@ ("error_type" :> Some("partial_pdf_print_failure"))

\* "Return overall result"
print_pdf_result(j) ==
    LET all_success == j.failed_pages = 0 IN
    ("success" :> all_success)
    @@ ("pages_total" :> j.page_count)
    @@ ("pages_successful" :> j.successful_pages)
    @@ ("pages_failed" :> j.failed_pages)
    @@ ("page_results" :> j.results)
    @@ ("error" :> IF all_success THEN None
                   ELSE Some(ToString(j.failed_pages) \o " of " \o ToString(j.page_count)
                             \o " pages failed to print"))
    @@ ("error_type" :> IF all_success THEN None ELSE Some("partial_pdf_print_failure"))

\* The capability check is left out: the payload is decoded at once.
print_pdf_unchecked(j, support) == [j EXCEPT !.pc = "pdf_open"]

\* "if not PDF_SUPPORT: return {...}"
print_pdf_check(j, support) ==
    IF ~support
    THEN Return(j, TypedFailure(
             "PDF support not available. Install PyMuPDF: pip install PyMuPDF",
             "pdf_support_missing"))
    ELSE [j EXCEPT !.pc = "pdf_open"]

\* The call, and "if not PDF_SUPPORT"
print_pdf(t, U) ==
    /\ job[t].pc = "idle"
    /\ "pdf" \in U.kinds
    /\ \E printer \in U.printers, payload \in PdfPayloads(U.pages),
          rotate \in U.rotations, cut \in U.cuts, margin \in U.margins :
       \E request \in {r \in U.requests : Accepted(r, printer, "pdf")} :
         LET j == [job[t] EXCEPT !.entry = "print_pdf", !.printer = printer,
                                 !.request = request, !.view = "print_label",
                             !.payload = payload,
                                 !.arg_rotate = rotate, !.arg_margin = margin,
                                 !.rotate = rotate, !.cut = cut, !.margin = margin]
         IN job' = [job EXCEPT ![t] = print_pdf_check(j, PDF_SUPPORT)]
    /\ UNCHANGED <<Env, log, device>>

\* The document opened with an empty page list ends the loop at once.
print_pdf_opened_unguarded(j) ==
    [j EXCEPT !.page_count = j.payload.pages, !.page_num = 0,
              !.results = <<>>, !.successful_pages = 0, !.failed_pages = 0,
              !.pc = IF j.payload.pages = 0 THEN "pdf_close" ELSE "page_render"]

\* "page_count = len(pdf_document)", "if page_count == 0", "Track results"
print_pdf_opened(j) ==
    IF j.payload.pages = 0
    THEN Return([j EXCEPT !.page_count = 0],
                TypedFailure("PDF has no pages", "empty_pdf"))
    ELSE [j EXCEPT !.page_count = j.payload.pages, !.page_num = 0,
                   !.results = <<>>, !.successful_pages = 0,
                   !.failed_pages = 0, !.pc = "page_render"]

\* base64.b64decode, fitz.open, and what follows the open
pdf_open(t) ==
    LET j == job[t] IN
    /\ j.pc = "pdf_open"
    /\ job' = [job EXCEPT ![t] =
           IF ~j.payload.base64 THEN print_pdf_except(j, "Incorrect padding")
           ELSE IF ~j.payload.opens THEN print_pdf_except(j, "Failed to open stream")
           ELSE print_pdf_opened(j)]
    /\ UNCHANGED <<Env, log, device>>

\* pdf_document[page_num], page.get_pixmap, Image.open
page_render(t) ==
    LET j == job[t] IN
    /\ j.pc = "page_render"
    /\ job' = [job EXCEPT ![t] =
           IF (j.page_num + 1) \in j.payload.bad_pages
           THEN print_pdf_page_except(j, "cannot render page")
           ELSE [j EXCEPT !.image = NewImage(j.payload.size, "RGB"),
                          !.pc = "page_transform"]]
    /\ log' = Logged(t, "render", j.page_num + 1)
    /\ UNCHANGED <<Env, device>>

\* rotate, convert('1'), _add_margin
page_transform(t) ==
    LET j == job[t] IN
    /\ j.pc = "page_transform"
    /\ \E raises \in BOOLEAN :
         job' = [job EXCEPT ![t] =
           IF raises
           THEN print_pdf_page_except(j, "cannot transform image")
           ELSE [j EXCEPT !.image = Transform(j.image, j.rotate, j.margin),
                          !.pc = "page_connection"]]
    /\ UNCHANGED <<Env, log, device>>

\* "Get printer connection details", "if not address", _construct_identifier
page_connection(t) ==
    LET j == job[t]
        connection == Get(j.printer, "connection", "network")
        address == Get(j.printer, "address", None)
        port == Get(j.printer, "port", Some(9100))
        pair == _construct_identifier(connection, address, port)
    IN
    /\ j.pc = "page_connection"
    /\ job' = [job EXCEPT ![t] =
           IF ~AddressTruthy(address)
           THEN print_pdf_no_address(j)
           ELSE [j EXCEPT !.identifier = pair[1], !.backend = pair[2],
                          !.pc = "page_dispatch"]]
    /\ UNCHANGED <<Env, log, device>>

\* The arguments a driver branch is called with
DriverCall(j, model, branch) ==
    [branch |-> branch, image |-> j.image, identifier |-> j.identifier,
     model |-> model, backend |-> j.backend,
     label_size |-> Get(j.printer, "label_size", "62"), cut |-> j.cut,
     rotate |-> IF branch = "brother_ql" THEN ConvertRotate(j.rotate) ELSE ""]

\* "Print the page": the library is picked and called
page_dispatch(t) ==
    LET j == job[t]
        model == Get(j.printer, "model", "QL-820NWB")
        branch == print_pdf_branch(model, has_brother_ql, has_labelprinterkit)
    IN
    /\ j.pc = "page_dispatch"
    /\ job' = [job EXCEPT ![t] =
           [j EXCEPT !.branch = branch, !.call = DriverCall(j, model, branch),
                     !.pc = branch]]
    /\ log' = Logged(t, branch, j.page_num + 1)
    /\ UNCHANGED <<Env, device>>

\* "Track result for this page"
page_record(t) ==
    LET j == job[t] IN
    /\ j.pc = "unit_done"
    /\ j.entry = "print_pdf"
    /\ job' = [job EXCEPT ![t] = print_pdf_track(j)]
    /\ log' = Logged(t, "record", j.page_num + 1)
    /\ UNCHANGED <<Env, device>>

\* pdf_document.close() and "Return overall result".  close() is called
\* once, on the document this job opened, and does not raise.
pdf_close(t) ==
    LET j == job[t] IN
    /\ j.pc = "pdf_close"
    /\ job' = [job EXCEPT ![t] = Return(j, print_pdf_result(j))]
    /\ UNCHANGED <<Env, log, device>>

\* ------------------------------------------------------ drivers
\* The unit a driver branch works on: the page of a document, 0 otherwise
Unit(j) == IF j.entry = "print_pdf" THEN j.page_num + 1 ELSE 0

\* A driver branch hands its result back to the code that called it.
DriverReturn(j, result) == [j EXCEPT !.page_result = result, !.pc = "unit_done"]

\* The except block made to call send again when send raised.
brother_ql_except_retry(j, e) ==
    IF e = "send error" THEN [j EXCEPT !.pc = "brother_ql_send"]
    ELSE DriverReturn(j, Failure("brother_ql print failed: " \o e))

\* "except Exception as e" of _print_with_brother_ql
brother_ql_except(j, e) == DriverReturn(j, Failure("brother_ql print failed: " \o e))

\* _print_with_brother_ql: BrotherQLRaster(model) and convert(...)
brother_ql_convert(t) ==
    LET j == job[t] IN
    /\ j.pc = "brother_ql"
    /\ \E raises \in BOOLEAN :
         job' = [job EXCEPT ![t] =
           IF raises THEN brother_ql_except(j, "convert error")
           ELSE [j EXCEPT !.pc = "brother_ql_send"]]
    /\ UNCHANGED <<Env, log, device>>

\* _print_with_brother_ql: send(..., blocking=True) and the success result
brother_ql_send(t) ==
    LET j == job[t] IN
    /\ j.pc = "brother_ql_send"
    /\ \E raises \in BOOLEAN :
         IF raises
         THEN /\ job' = [job EXCEPT ![t] = brother_ql_except(j, "send error")]
              /\ UNCHANGED device
         ELSE /\ job' = [job EXCEPT ![t] =
                    DriverReturn(j, Success("Print job sent successfully via brother_ql"))]
              /\ device' = Append(device, [t |-> t, page |-> Unit(j), call |-> j.call])
    /\ log' = Logged(t, "send", Unit(j))
    /\ UNCHANGED Env

\* The stub replaced by an integration that reports the label as sent.
_print_with_labelprinterkit_implemented(image, identifier, model, backend, cut) ==
    Success("Print job sent successfully via labelprinterkit")

\* BrotherQLHandler._print_with_labelprinterkit
_print_with_labelprinterkit(image, identifier, model, backend, cut) ==
    Failure("labelprinterkit integration not yet implemented")

labelprinterkit(t) ==
    LET j == job[t] IN
    /\ j.pc = "labelprinterkit"
    /\ job' = [job EXCEPT ![t] =
           DriverReturn(j, _print_with_labelprinterkit(
               j.call.image, j.call.identifier, j.call.model, j.call.backend, j.call.cut))]
    /\ UNCHANGED <<Env, log, device>>

\* Position of the last ":" of s, 0 when there is none (str.rsplit(':', 1))
LastColon(s) ==
    LET at == {i \in 1..Len(s) : SubSeq(s, i, i) = ":"} IN
    IF at = {} THEN 0 ELSE CHOOSE i \in at : \A k \in at : k <= i

\* int(s) accepts s: a non-empty run of decimal digits
IsInt(s) ==
    /\ Len(s) > 0
    /\ \A i \in 1..Len(s) :
         SubSeq(s, i, i) \in {"0", "1", "2", "3", "4", "5", "6", "7", "8", "9"}

\* The fallback reports the raster data as sent.
_print_raw_sends(image, identifier, model, backend, cut) ==
    IF ~StartsWith(identifier, "tcp://")
    THEN Failure("Raw printing only supports TCP connections. Install brother_ql for other backends.")
    ELSE Success("Print job sent successfully via raw TCP")

\* BrotherQLHandler._print_raw
_print_raw(image, identifier, model, backend, cut) ==
    IF ~StartsWith(identifier, "tcp://")
    THEN Failure("Raw printing only supports TCP connections. Install brother_ql for other backends.")
    ELSE LET host_port == SubSeq(identifier, 7, Len(identifier))
             colon == LastColon(host_port)
         IN IF colon > 0 /\ ~IsInt(SubSeq(host_port, colon + 1, Len(host_port)))
            THEN Failure("Raw print failed: invalid literal for int()")
            ELSE Failure("No compatible printer library installed. "
                         \o "Please install: pip install brother_ql (for QL models) "
                         \o "or pip install labelprinterkit (for PT models)")

raw(t) ==
    LET j == job[t] IN
    /\ j.pc = "raw"
    /\ job' = [job EXCEPT ![t] =
           DriverReturn(j, _print_raw(
               j.call.image, j.call.identifier, j.call.model, j.call.backend, j.call.cut))]
    /\ UNCHANGED <<Env, log, device>>

\* ------------------------------------------------------ print_image
\* The handler lets the exception go on to the caller: to print_text's
\* handler when print_text made the call, out of the handler otherwise.
print_image_except_reraise(j, e) ==
    IF j.entry = "print_text" THEN print_text_except(j, e) ELSE Raise(j, e)

\* The handler leaves the error type out.
print_image_except_untagged(j, e) == Return(j, Failure("Failed to print image: " \o e))

\* "except Exception as e" of print_image
print_image_except(j, e) ==
    Return(j, TypedFailure("Failed to print image: " \o e, "image_print_error"))

\* "if not address:" of print_image
print_image_no_address(j) == Return(j, Failure("Printer address not specified"))

\* The call of print_image by the front door
print_image(t, U) ==
    /\ job[t].pc = "idle"
    /\ "image" \in U.kinds
    /\ \E printer \in U.printers, payload \in ImagePayloads,
          rotate \in U.rotations, cut \in U.cuts, margin \in U.margins :
       \E request \in {r \in U.requests : Accepted(r, printer, "image")} :
         job' = [job EXCEPT ![t] =
                   [@ EXCEPT !.entry = "print_image", !.printer = printer,
                             !.request = request, !.view = "print_label",
                             !.payload = payload,
                             !.arg_rotate = rotate, !.arg_margin = margin,
                             !.rotate = rotate, !.cut = cut, !.margin = margin,
                             !.pc = "image_decode"]]
    /\ UNCHANGED <<Env, log, device>>

\* base64.b64decode and Image.open
image_decode(t) ==
    LET j == job[t] IN
    /\ j.pc = "image_decode"
    /\ job' = [job EXCEPT ![t] =
           IF ~j.payload.base64 THEN print_image_except(j, "Incorrect padding")
           ELSE IF ~j.payload.decodable
           THEN print_image_except(j, "cannot identify image file")
           ELSE [j EXCEPT !.image = [NewImage(j.payload.size, "RGB") EXCEPT
                                        !.rot = j.payload.rot, !.ops = j.payload.ops],
                          !.pc = "image_transform"]]
    /\ log' = Logged(t, "render", 0)
    /\ UNCHANGED <<Env, device>>

\* rotate, convert('1'), _add_margin
image_transform(t) ==
    LET j == job[t] IN
    /\ j.pc = "image_transform"
    /\ \E raises \in BOOLEAN :
         job' = [job EXCEPT ![t] =
           IF raises
           THEN print_image_except(j, "cannot transform image")
           ELSE [j EXCEPT !.image = Transform(j.image, j.rotate, j.margin),
                          !.pc = "image_connection"]]
    /\ UNCHANGED <<Env, log, device>>

\* The port is read with dict.setdefault: a record with no port gets one.
print_image_connection_setdefault(j) ==
    LET connection == Get(j.printer, "connection", "network")
        address == Get(j.printer, "address", None)
        port == Get(j.printer, "port", Some(9100))
        pair == _construct_identifier(connection, address, port)
        written == [j EXCEPT !.printer = j.printer @@ ("port" :> Some(9100))]
    IN IF ~AddressTruthy(address)
       THEN print_image_no_address(written)
       ELSE [written EXCEPT !.identifier = pair[1], !.backend = pair[2],
                            !.pc = "image_dispatch"]

\* "Get printer connection details", "if not address", _construct_identifier
print_image_connection(j) ==
    LET connection == Get(j.printer, "connection", "network")
        address == Get(j.printer, "address", None)
        port == Get(j.printer, "port", Some(9100))
        pair == _construct_identifier(connection, address, port)
    IN IF ~AddressTruthy(address)
       THEN print_image_no_address(j)
       ELSE [j EXCEPT !.identifier = pair[1], !.backend = pair[2],
                      !.pc = "image_dispatch"]

image_connection(t) ==
    /\ job[t].pc = "image_connection"
    /\ job' = [job EXCEPT ![t] = print_image_connection(job[t])]
    /\ UNCHANGED <<Env, log, device>>

\* "Determine which library to use based on model": picked and called
image_dispatch(t) ==
    LET j == job[t]
        model == Get(j.printer, "model", "QL-820NWB")
        branch == print_image_branch(model, has_brother_ql, has_labelprinterkit)
    IN
    /\ j.pc = "image_dispatch"
    /\ job' = [job EXCEPT ![t] =
           [j EXCEPT !.branch = branch, !.call = DriverCall(j, model, branch),
                     !.pc = branch]]
    /\ log' = Logged(t, branch, 0)
    /\ UNCHANGED <<Env, device>>

\* "return self._print_with_...": the driver's result is the job's result
image_return(t) ==
    LET j == job[t] IN
    /\ j.pc = "unit_done"
    /\ j.entry \in {"print_image", "print_text"}
    /\ job' = [job EXCEPT ![t] = Return(j, j.page_result)]
    /\ UNCHANGED <<Env, log, device>>

\* ------------------------------------------------------ print_text
\* BrotherQLHandler._text_to_image: the canvas is the text plus the margins
_text_to_image(bbox, margin) ==
    [w |-> bbox[1] + (margin * 2), h |-> bbox[2] + (margin * 2), mode |-> "RGB",
     rot |-> 0, ops |-> <<"margin">>]

\* image.save(buffer, format='PNG') and base64.b64encode: a well-formed payload
\* that decodes to the same pixels
EncodePNG(image) ==
    [kind |-> "image", base64 |-> TRUE, decodable |-> TRUE,
     size |-> <<image.w, image.h>>, rot |-> image.rot, ops |-> image.ops]

\* The call of print_text by the front door
print_text(t, U) ==
    /\ job[t].pc = "idle"
    /\ "text" \in U.kinds
    /\ \E printer \in U.printers, payload \in TextPayloads,
          rotate \in U.rotations, cut \in U.cuts, margin \in U.margins :
       \E request \in {r \in U.requests : Accepted(r, printer, "text")} :
         job' = [job EXCEPT ![t] =
                   [@ EXCEPT !.entry = "print_text", !.printer = printer,
                             !.request = request, !.view = "print_label",
                             !.payload = payload,
                             !.arg_rotate = rotate, !.arg_margin = margin,
                             !.rotate = rotate, !.cut = cut, !.margin = margin,
                             !.pc = "text_render"]]
    /\ UNCHANGED <<Env, log, device>>

\* "image = self._text_to_image(text, font_size, margin)"
text_render(t) ==
    LET j == job[t] IN
    /\ j.pc = "text_render"
    /\ \E raises \in BOOLEAN :
         job' = [job EXCEPT ![t] =
           IF raises THEN print_text_except(j, "cannot render text")
           ELSE [j EXCEPT !.image = _text_to_image(j.payload.bbox, j.margin),
                          !.pc = "text_encode"]]
    /\ UNCHANGED <<Env, log, device>>

\* "Rotate if needed", the PNG/base64 encoding, and
\* "return self.print_image(printer, image_base64, rotate=0, cut=cut, margin=0)"
text_encode(t) ==
    LET j == job[t]
        image == RotateIfNeeded(j.image, j.rotate)
    IN
    /\ j.pc = "text_encode"
    /\ job' = [job EXCEPT ![t] =
           [j EXCEPT !.image = image, !.payload = EncodePNG(image),
                     !.rotate = 0, !.margin = 0, !.pc = "image_decode"]]
    /\ UNCHANGED <<Env, log, device>>

\* ------------------------------------------------------ front door
\* print_label: the response built from the handler's result
print_label_response(result, printer_id) ==
    IF result["success"]
    THEN Response(200,
             ("success" :> TRUE)
             @@ ("message" :> "Print job sent successfully")
             @@ ("printer_id" :> printer_id)
             @@ (IF "pages_total" \in DOMAIN result
                 THEN ("pages_total" :> result["pages_total"])
                      @@ ("pages_successful" :> result["pages_successful"])
                      @@ ("pages_failed" :> result["pages_failed"])
                      @@ (IF Get(result, "page_results", <<>>) # <<>>
                          THEN "page_results" :> result["page_results"]
                          ELSE EmptyDict)
                 ELSE EmptyDict))
    ELSE Response(500,
             ("success" :> FALSE)
             @@ ("error" :> Get(result, "error", Some("Unknown error"))))

\* print_label after the handler returned: record_image_generation, then
\* "if result['success']: ... else: ..." with its recording calls, all
\* inside the try
print_label_after(request, result, printer_id) ==
    IF TelemetryRaises(request, "generation")
    THEN print_label_except(request, "record_image_generation failed")
    ELSE IF result["success"] /\ TelemetryRaises(request, "outcome")
    THEN print_label_except(request, "record_print_success failed")
    ELSE IF ~result["success"] /\ TelemetryRaises(request, "outcome")
    THEN print_label_except(request, "record_print_failure failed")
    ELSE IF ~result["success"] /\ TelemetryRaises(request, "error")
    THEN print_label_except(request, "record_error failed")
    ELSE print_label_response(result, printer_id)

\* print_label answers; the printer was looked up by its id
print_label_respond(t) ==
    LET j == job[t] IN
    /\ j.pc = "returned"
    /\ job' = [job EXCEPT ![t] =
           [j EXCEPT !.response = print_label_after(j.request, j.result,
                                                    j.request.data[1]["printer_id"]),
                     !.pc = "responded"]]
    /\ UNCHANGED <<Env, log, device>>

\* The decorator answers the request itself: the route's function is not
\* called.
require_api_key_reject(t, U) ==
    /\ job[t].pc = "idle"
    /\ \E request \in U.requests, printer \in U.printers :
         /\ request.route # "/health"
         /\ require_api_key(request) # Pass
         /\ job' = [job EXCEPT ![t] =
                [@ EXCEPT !.request = request, !.printer = printer,
                          !.response = require_api_key(request),
                          !.pc = "responded"]]
    /\ UNCHANGED <<Env, log, device>>

\* health_check: the route has no decorator
health_check(t, U) ==
    /\ job[t].pc = "idle"
    /\ \E request \in U.requests, printer \in U.printers :
         /\ request.route = "/health"
         /\ job' = [job EXCEPT ![t] =
                [@ EXCEPT !.request = request, !.printer = printer,
                          !.view = "health_check",
                          !.response = Response(200, ("status" :> "ok")
                                                     @@ ("service" :> "brother-label-api")),
                          !.pc = "responded"]]
    /\ UNCHANGED <<Env, log, device>>

\* list_printers, called by the decorator
list_printers(t, U) ==
    /\ job[t].pc = "idle"
    /\ \E request \in U.requests, printer \in U.printers :
         /\ request.route = "/api/printers"
         /\ require_api_key(request) = Pass
         /\ job' = [job EXCEPT ![t] =
                [@ EXCEPT !.request = request, !.printer = printer,
                          !.view = "list_printers",
                          !.response = Response(200, "printers" :> <<printer>>),
                          !.pc = "responded"]]
    /\ UNCHANGED <<Env, log, device>>

\* get_printer of app.py, called by the decorator with the printer_id of
\* the path
app_get_printer(t, U) ==
    /\ job[t].pc = "idle"
    /\ \E request \in U.requests, printer \in U.printers,
          printer_id \in {"office-printer", "nowhere"} :
         /\ request.route = "/api/printers/<printer_id>"
         /\ require_api_key(request) = Pass
         /\ job' = [job EXCEPT ![t] =
                [@ EXCEPT !.request = request, !.printer = printer,
                          !.view = "get_printer",
                          !.response =
                              IF get_printer(<<printer>>, Some(printer_id)) = None
                              THEN Response(404, ErrorBody("Printer not found"))
                              ELSE Response(200, "printer" :>
                                       get_printer(<<printer>>, Some(printer_id))),
                          !.pc = "responded"]]
    /\ UNCHANGED <<Env, log, device>>

\* print_label returns before it calls a handler; `printer` is the printer
\* the configuration holds.
print_label_refuse(t, U) ==
    /\ job[t].pc = "idle"
    /\ \E request \in U.requests, printer \in U.printers :
         /\ request.route = "/api/print"
         /\ require_api_key(request) = Pass
         /\ print_label_before(request, <<printer>>) # Pass
         /\ job' = [job EXCEPT ![t] =
                [@ EXCEPT !.request = request, !.printer = printer,
                          !.view = "print_label",
                          !.response = print_label_before(request, <<printer>>),
                          !.pc = "responded"]]
    /\ UNCHANGED <<Env, log, device>>

\* ------------------------------------------------------ configuration store
\* The printer records handed to add_printer: an id or none, a name or none
StoreKeys == {"a", "b", "c"}
StoreRecords ==
    { Entry("id", id) @@ Entry("name", name) :
        id \in {<<>>} \cup {<<k>> : k \in StoreKeys},
        name \in {<<>>} \cup {<<k>> : k \in StoreKeys} }

\* PrinterManager.add_printer: the new list and the value returned
add_printer_result(printers, printer) ==
    IF "id" \notin DOMAIN printer THEN <<printers, FALSE>>
    ELSE IF get_printer(printers, Some(printer["id"])) # None THEN <<printers, FALSE>>
    ELSE <<Append(printers, printer), TRUE>>

\* PrinterManager.remove_printer: the new list and the value returned
remove_printer_result(printers, printer_id) ==
    LET kept == SelectSeq(printers,
                    LAMBDA p : /\ Field(p, "id") # Some(printer_id)
                               /\ Field(p, "name") # Some(printer_id))
    IN <<kept, Len(kept) < Len(printers)>>

add_printer(printer) ==
    LET before == printer_manager.printers
        outcome == add_printer_result(before, printer)
    IN
    /\ Len(before) < MaxPrinters
    /\ printer_manager' =
           [printers |-> outcome[1],
            last |-> [op |-> "add_printer", arg |-> printer, before |-> before,
                      result |-> outcome[2]]]
    /\ UNCHANGED <<PDF_SUPPORT, has_brother_ql, has_labelprinterkit, job, log, device>>

remove_printer(printer_id) ==
    LET before == printer_manager.printers
        outcome == remove_printer_result(before, printer_id)
    IN
    /\ printer_manager' =
           [printers |-> outcome[1],
            last |-> [op |-> "remove_printer", arg |-> printer_id, before |-> before,
                      result |-> outcome[2]]]
    /\ UNCHANGED <<PDF_SUPPORT, has_brother_ql, has_labelprinterkit, job, log, device>>

\* ------------------------------------------------------ specification
\* One step of the request served on thread t
Step(t, U) ==
        \/ print_text(t, U) \/ text_render(t) \/ text_encode(t)
        \/ print_image(t, U) \/ image_decode(t) \/ image_transform(t)
        \/ image_connection(t) \/ image_dispatch(t) \/ image_return(t)
        \/ print_pdf(t, U) \/ pdf_open(t) \/ page_render(t) \/ page_transform(t)
        \/ page_connection(t) \/ page_dispatch(t) \/ page_record(t) \/ pdf_close(t)
        \/ brother_ql_convert(t) \/ brother_ql_send(t) \/ labelprinterkit(t) \/ raw(t)
        \/ print_label_respond(t)

Next(U) == \E t \in Threads : Step(t, U)

NextPair == \E t \in ThreadPair : Step(t, PairInputs[t])

\* The steps of a request at the front door
StepDoor(t, U) ==
        \/ Step(t, U)
        \/ require_api_key_reject(t, U)
        \/ health_check(t, U) \/ list_printers(t, U) \/ app_get_printer(t, U)
        \/ print_label_refuse(t, U)

NextDoor == \E t \in Threads : StepDoor(t, DoorInputs)

\* Documents of up to MaxPages pages on a few printers.
Spec == Init /\ [][Next(DocumentInputs)]_vars

\* Every printer record and option, one unit at a time.
SpecUnit == Init /\ [][Next(UnitInputs)]_vars

\* Two jobs at the same time: the server handles each request on a thread
\* of its own and the handler takes no lock.
SpecPair == InitOf(ThreadPair) /\ [][NextPair]_vars

\* Every request at the front door, for one configured printer.
SpecDoor == Init /\ [][NextDoor]_vars

\* Calls of add_printer and remove_printer on a configuration that starts
\* with no printers and holds up to MaxPrinters of them.
NextStore ==
    \/ \E printer \in StoreRecords : add_printer(printer)
    \/ \E printer_id \in StoreKeys : remove_printer(printer_id)

SpecStore == Init /\ [][NextStore]_vars

\* A job runs in the request's own flow: the interpreter keeps executing the
\* thread that serves it, and every call it makes, send(blocking=True)
\* included, is taken to return.
SpecSync ==
    /\ Init
    /\ [][Next(SyncInputs)]_vars
    /\ \A t \in Threads : WF_vars(Step(t, SyncInputs))

\* ------------------------------------------------------ properties
\* The handler has returned to print_label; print_label has answered.
Returned(t) == job[t].pc \in {"returned", "responded"}
Responded(t) == job[t].pc = "responded"

\* The job is a print_pdf call whose document opened with n >= 1 pages, so
\* that the page loop ran.
LoopedDocument(t) ==
    /\ job[t].entry = "print_pdf"
    /\ PDF_SUPPORT
    /\ job[t].payload.base64 /\ job[t].payload.opens
    /\ job[t].payload.pages >= 1

\* Positions of the log where thread t ran a stage in `evs` on page k
EventsOf(t, k, evs) ==
    {i \in 1..Len(log[t]) : log[t][i].page = k /\ log[t][i].ev \in evs}

Branches == {"brother_ql", "labelprinterkit", "raw"}

\* Pages of thread t's job that the transport delivered to the device
Delivered(t) == {device[i].page : i \in {k \in 1..Len(device) : device[k].t = t}}

\* C1: a print_pdf job that reached the page loop on a document of n >= 1
\* pages returns success == (pages_failed == 0),
\* pages_successful + pages_failed == pages_total == n, and n page results.
C1_AggregateLaw ==
    \A t \in Threads :
        (Returned(t) /\ LoopedDocument(t)) =>
            LET r == job[t].result
                n == job[t].payload.pages
            IN /\ {"success", "pages_total", "pages_successful", "pages_failed",
                   "page_results"} \subseteq DOMAIN r
               /\ r["success"] = (r["pages_failed"] = 0)
               /\ r["pages_successful"] + r["pages_failed"] = r["pages_total"]
               /\ r["pages_total"] = n
               /\ Len(r["page_results"]) = n

\* C1 witness: a three-page job returned with one page failed, two printed.
C1_Witness ==
    \E t \in Threads :
        /\ Returned(t) /\ LoopedDocument(t)
        /\ job[t].payload.pages = 3
        /\ job[t].result["pages_failed"] = 1
        /\ job[t].result["pages_successful"] = 2

\* C2: whichever pages fail to rasterize, transform or dispatch, every one of
\* the n pages is attempted, each gets exactly one page result, pages_failed
\* counts exactly the pages that did not print, and the other pages are
\* delivered to the device.
C2_PerPageIsolation ==
    \A t \in Threads :
        (Returned(t) /\ LoopedDocument(t)) =>
            LET r == job[t].result
                n == job[t].payload.pages
                failing == {k \in 1..n : k \notin Delivered(t)}
            IN /\ \A k \in 1..n : Cardinality(EventsOf(t, k, {"render"})) = 1
               /\ Len(r["page_results"]) = n
               /\ \A k \in 1..n : /\ r["page_results"][k].page = k
                                  /\ r["page_results"][k].success = (k \notin failing)
               /\ job[t].payload.bad_pages \subseteq failing
               /\ r["pages_failed"] = Cardinality(failing)
               /\ r["pages_successful"] = n - Cardinality(failing)

\* C2 witness: a three-page document whose page 2 does not rasterize; pages 1
\* and 3 were dispatched and delivered; 3 total, 1 failed, 2 successful.
C2_Witness ==
    \E t \in Threads :
        /\ Returned(t) /\ LoopedDocument(t)
        /\ job[t].payload.pages = 3
        /\ job[t].payload.bad_pages = {2}
        /\ Delivered(t) = {1, 3}
        /\ EventsOf(t, 2, Branches) = {}
        /\ job[t].result["pages_total"] = 3
        /\ job[t].result["pages_failed"] = 1
        /\ job[t].result["pages_successful"] = 2

\* C3: within a print_pdf job the stages run in ascending page order, no
\* stage of page k+1 runs before page k's outcome is recorded, each page is
\* dispatched and sent at most once, and the results list pages 1, 2, ... in
\* order.
C3_AscendingOrder ==
    \A t \in Threads :
        job[t].entry = "print_pdf" =>
            LET mine == 1..Len(log[t]) IN
            /\ \A i, k \in mine : i < k => log[t][i].page <= log[t][k].page
            /\ \A i \in mine : log[t][i].page <= Len(job[t].results) + 1
            /\ \A k \in 1..MaxPages + 1 :
                  /\ Cardinality(EventsOf(t, k, Branches)) <= 1
                  /\ Cardinality(EventsOf(t, k, {"send"})) <= 1
            /\ \A i \in 1..Len(job[t].results) : job[t].results[i].page = i
            /\ Returned(t) /\ LoopedDocument(t) =>
                  job[t].result["page_results"] = job[t].results

\* C3 witness: a returned three-page job all of whose pages were dispatched.
C3_Witness ==
    \E t \in Threads :
        /\ Returned(t) /\ LoopedDocument(t)
        /\ job[t].payload.pages = 3
        /\ \A k \in 1..3 : EventsOf(t, k, Branches) # {}

PageFields == {"pages_total", "pages_successful", "pages_failed", "page_results"}

\* The job is a print_pdf call whose document opened with no pages.
EmptyDocument(t) ==
    /\ job[t].entry = "print_pdf"
    /\ PDF_SUPPORT
    /\ job[t].payload.base64 /\ job[t].payload.opens
    /\ job[t].payload.pages = 0

\* No stage of a page ran for thread t: nothing rendered, dispatched or sent.
NothingRun(t) == log[t] = <<>>

\* C4 as stated: a document with 0 pages is never dispatched and returns
\* success=false with error type "empty_document" and no page fields.
C4_EmptyDocumentTag ==
    \A t \in Threads :
        (Returned(t) /\ EmptyDocument(t)) =>
            /\ job[t].result["success"] = FALSE
            /\ Get(job[t].result, "error_type", None) = Some("empty_document")
            /\ DOMAIN job[t].result \cap PageFields = {}
            /\ NothingRun(t)

\* C4 amended: a document with 0 pages is never rendered or dispatched, at
\* any point of the job, and returns success=false with error type
\* "empty_pdf" and no page fields.
C4_EmptyPdf ==
    \A t \in Threads :
        EmptyDocument(t) =>
            /\ NothingRun(t)
            /\ job[t].pc = "pdf_open" \/ Returned(t)
            /\ Returned(t) =>
                  /\ job[t].result["success"] = FALSE
                  /\ Get(job[t].result, "error_type", None) = Some("empty_pdf")
                  /\ Get(job[t].result, "error", None) # None
                  /\ DOMAIN job[t].result \cap PageFields = {}

\* C4 witness: a print_pdf job on an empty document has returned.
C4_Witness == \E t \in Threads : Returned(t) /\ EmptyDocument(t)

\* The summary print_pdf gives of f failed pages out of n
Summary(f, n) == ToString(f) \o " of " \o ToString(n) \o " pages failed to print"

\* C5 as stated: when a page failed the result has success=false, error type
\* "partial_document_print_failure" and an error text counting the failed
\* pages; when none failed, error and error type are not populated.
C5_PartialDocumentTag ==
    \A t \in Threads :
        (Returned(t) /\ LoopedDocument(t)) =>
            LET r == job[t].result
                n == job[t].payload.pages
                f == n - Cardinality(Delivered(t))
            IN IF f >= 1
               THEN /\ r["success"] = FALSE
                    /\ r["error_type"] = Some("partial_document_print_failure")
                    /\ r["error"] = Some(Summary(f, n))
               ELSE /\ r["error"] = None
                    /\ r["error_type"] = None

\* C5 amended: the same, the error type being "partial_pdf_print_failure".
C5_PartialPdf ==
    \A t \in Threads :
        (Returned(t) /\ LoopedDocument(t)) =>
            LET r == job[t].result
                n == job[t].payload.pages
                f == n - Cardinality(Delivered(t))
            IN IF f >= 1
               THEN /\ r["success"] = FALSE
                    /\ r["error_type"] = Some("partial_pdf_print_failure")
                    /\ r["error"] = Some(Summary(f, n))
               ELSE /\ r["success"] = TRUE
                    /\ r["error"] = None
                    /\ r["error_type"] = None

\* C5 witness: a three-page job returned with two failed pages and their
\* summary.
C5_Witness ==
    \E t \in Threads :
        /\ Returned(t) /\ LoopedDocument(t)
        /\ job[t].payload.pages = 3
        /\ Cardinality(Delivered(t)) = 1
        /\ job[t].result["error"] = Some("2 of 3 pages failed to print")

\* C6: print_text, print_image and print_pdf never raise to their caller;
\* whatever failed, what they return has a boolean success field.
C6_NeverRaises ==
    \A t \in Threads :
        /\ job[t].pc # "raised"
        /\ ~job[t].raised
        /\ Returned(t) =>
              /\ "success" \in DOMAIN job[t].result
              /\ job[t].result["success"] \in BOOLEAN

\* C6 witness: a print_text job returned after its image failed to transform
\* inside print_image.
C6_Witness ==
    \E t \in Threads :
        /\ Returned(t)
        /\ job[t].entry = "print_text"
        /\ job[t].result["success"] = FALSE
        /\ job[t].result["error"] = Some("Failed to print image: cannot transform image")

\* The result carries an error text / an error type tag.
HasError(r) == "error" \in DOMAIN r /\ r["error"] # None
HasErrorType(r) == "error_type" \in DOMAIN r /\ r["error_type"] # None

\* C7 as stated: every result with success=false carries an error text and an
\* error type tag.
C7_FailureTagged ==
    \A t \in Threads :
        (Returned(t) /\ ~job[t].result["success"]) =>
            HasError(job[t].result) /\ HasErrorType(job[t].result)

\* C7 amended: every result with success=false carries an error text; it
\* carries an error type tag exactly when it comes from print_pdf's own
\* returns or from print_image's exception handler, and carries none when
\* text rendering failed, the address is missing or a driver branch failed.
C7_FailureText ==
    \A t \in Threads :
        (Returned(t) /\ ~job[t].result["success"]) =>
            LET r == job[t].result IN
            /\ HasError(r)
            /\ IF job[t].entry = "print_pdf"
               THEN Get(r, "error_type", None) \in
                      {Some("pdf_support_missing"), Some("empty_pdf"),
                       Some("pdf_processing_error"), Some("partial_pdf_print_failure")}
               ELSE IF StartsWith(r["error"][1], "Failed to print image: ")
               THEN Get(r, "error_type", None) = Some("image_print_error")
               ELSE "error_type" \notin DOMAIN r

\* C7 witness: a text job failed in rendering and returned.
C7_Witness ==
    \E t \in Threads :
        /\ Returned(t)
        /\ job[t].entry = "print_text"
        /\ job[t].result["error"] = Some("Failed to print text: cannot render text")

\* The job has just built its identifier and is about to pick the library.
IdentifierBuilt(t) == job[t].pc \in {"image_dispatch", "page_dispatch"}

\* What the job's printer record gives for the connection details
ConnectionOf(t) == Get(job[t].printer, "connection", "network")
AddressOf(t) == Get(job[t].printer, "address", None)
PortOf(t) == Get(job[t].printer, "port", Some(9100))
ModelOf(t) == Get(job[t].printer, "model", "QL-820NWB")

\* C8 as stated: network gives tcp://{address}:{port} whenever a port is
\* present and tcp://{address} when it is absent, with backend network; usb
\* gives usb://{address} with pyusb; serial gives file://{address} with
\* linux_kernel.
C8_PortWhenPresent ==
    \A t \in Threads :
        IdentifierBuilt(t) =>
            LET a == AddressOf(t)[1]
                p == PortOf(t)
                pair == <<job[t].identifier, job[t].backend>>
            IN /\ ConnectionOf(t) = "network" =>
                    pair = << IF p # None THEN "tcp://" \o a \o ":" \o ToString(p[1])
                              ELSE "tcp://" \o a, "network" >>
               /\ ConnectionOf(t) = "usb" => pair = <<"usb://" \o a, "pyusb">>
               /\ ConnectionOf(t) = "serial" => pair = <<"file://" \o a, "linux_kernel">>

\* C8 amended: network gives tcp://{address}:{port} when the port is present
\* and not 0, and tcp://{address} when it is absent or 0, with backend
\* network; usb gives usb://{address} with pyusb; serial gives
\* file://{address} with linux_kernel; the builder fails for no input.
C8_PortWhenTruthy ==
    \A t \in Threads :
        IdentifierBuilt(t) =>
            LET a == AddressOf(t)[1]
                p == PortOf(t)
                pair == <<job[t].identifier, job[t].backend>>
            IN /\ ConnectionOf(t) = "network" =>
                    pair = << IF p # None /\ p[1] # 0
                              THEN "tcp://" \o a \o ":" \o ToString(p[1])
                              ELSE "tcp://" \o a, "network" >>
               /\ ConnectionOf(t) = "usb" => pair = <<"usb://" \o a, "pyusb">>
               /\ ConnectionOf(t) = "serial" => pair = <<"file://" \o a, "linux_kernel">>

\* C8 witness: a network printer with port 0 got the identifier with no port.
C8_Witness ==
    \E t \in Threads :
        /\ IdentifierBuilt(t)
        /\ ConnectionOf(t) = "network"
        /\ PortOf(t) = Some(0)
        /\ job[t].identifier = "tcp://X"
        /\ job[t].backend = "network"

\* C9: a connection type outside network, usb and serial yields, for the same
\* address and port, the identifier and the backend that network yields.
C9_UnknownAsNetwork ==
    \A t \in Threads :
        (IdentifierBuilt(t) /\ ConnectionOf(t) \notin {"network", "usb", "serial"}) =>
            <<job[t].identifier, job[t].backend>> =
                _construct_identifier("network", AddressOf(t), PortOf(t))

\* The job has picked its library.
BranchPicked(t) == job[t].branch # "none"

\* C10: a unit goes to the QL driver if and only if the model starts with
\* "QL-" and the QL driver is available, to the PT driver only if the model
\* is a known PT model and the PT driver is available, and to the raw
\* fallback in every other case.
C10_BackendSelection ==
    \A t \in Threads :
        BranchPicked(t) =>
            LET ql == StartsWith(ModelOf(t), "QL-") /\ has_brother_ql
                pt == ModelOf(t) \in supported_pt_models /\ has_labelprinterkit
            IN /\ job[t].branch = "brother_ql" <=> ql
               /\ job[t].branch = "labelprinterkit" => pt
               /\ (~ql /\ ~pt) => job[t].branch = "raw"

\* The texts of the PT stub and of the raw fallback
NotImplementedText == "labelprinterkit integration not yet implemented"
TcpOnlyText ==
    "Raw printing only supports TCP connections. Install brother_ql for other backends."
InstallText ==
    "No compatible printer library installed. "
    \o "Please install: pip install brother_ql (for QL models) "
    \o "or pip install labelprinterkit (for PT models)"

\* The driver branch of the job's unit has handed its result back.
UnitDone(t) == job[t].pc = "unit_done"

\* C11 as stated: a unit for model "PT-P710BT" yields success=false with the
\* text of the PT stub, whether or not the PT driver is present and whatever
\* the connection type.
C11_AlwaysNotImplemented ==
    \A t \in DOMAIN job :
        (UnitDone(t) /\ ModelOf(t) = "PT-P710BT") =>
            job[t].page_result = Failure(NotImplementedText)

\* C11 amended: a job for model "PT-P710BT" never succeeds and delivers
\* nothing, whatever the drivers present and the connection type; its unit
\* gets the text of the PT stub exactly when the PT driver is present, and
\* the text of the raw fallback when it is not.
C11_NeverPrintsPT ==
    \A t \in DOMAIN job :
        ModelOf(t) = "PT-P710BT" =>
            /\ Delivered(t) = {}
            /\ job[t].branch # "brother_ql"
            /\ Returned(t) => job[t].result["success"] = FALSE
            /\ UnitDone(t) =>
                  /\ job[t].page_result["success"] = FALSE
                  /\ (job[t].page_result["error"] = Some(NotImplementedText))
                        <=> has_labelprinterkit
                  /\ ~has_labelprinterkit =>
                        /\ job[t].branch = "raw"
                        /\ job[t].page_result["error"] \in
                              {Some(TcpOnlyText), Some(InstallText)}

\* C11 witness: with no PT driver present, a print_image job for a PT-P710BT
\* on the network returned the raw fallback's text.
C11_Witness ==
    \E t \in DOMAIN job :
        /\ Returned(t)
        /\ job[t].entry = "print_image"
        /\ ModelOf(t) = "PT-P710BT"
        /\ ~has_labelprinterkit
        /\ job[t].result = Failure(InstallText)

\* The unit of the job went to the raw fallback.
RawUnit(t) == job[t].branch = "raw"

\* The identifier is tcp:// and the text after its last ":" is not a number.
BadPortText(identifier) ==
    LET host_port == SubSeq(identifier, 7, Len(identifier)) IN
    /\ StartsWith(identifier, "tcp://")
    /\ LastColon(host_port) > 0
    /\ ~IsInt(SubSeq(host_port, LastColon(host_port) + 1, Len(host_port)))

\* C12 as stated: the raw fallback never reports success and never sends
\* anything; for every identifier its outcome is success=false with a text
\* that tells the operator to install a driver.
C12_InstallGuidance ==
    \A t \in DOMAIN job :
        RawUnit(t) =>
            /\ Delivered(t) = {}
            /\ UnitDone(t) =>
                  /\ job[t].page_result["success"] = FALSE
                  /\ job[t].page_result["error"] \in {Some(TcpOnlyText), Some(InstallText)}

\* C12 amended: the raw fallback never reports success and never sends
\* anything; its text tells the operator to install a driver, except for a
\* tcp identifier whose text after the last ":" is not a number, where it is
\* "Raw print failed: ..." with no such guidance.
C12_RawNeverSends ==
    \A t \in DOMAIN job :
        RawUnit(t) =>
            /\ Delivered(t) = {}
            /\ UnitDone(t) =>
                  /\ job[t].page_result["success"] = FALSE
                  /\ "message" \notin DOMAIN job[t].page_result
                  /\ job[t].page_result["error"] =
                        IF ~StartsWith(job[t].identifier, "tcp://") THEN Some(TcpOnlyText)
                        ELSE IF BadPortText(job[t].identifier)
                        THEN Some("Raw print failed: invalid literal for int()")
                        ELSE Some(InstallText)

\* C12 witness: a unit for the printer at fe80::abcd, identifier
\* tcp://fe80::abcd, came back from the raw fallback with "Raw print failed".
C12_Witness ==
    \E t \in DOMAIN job :
        /\ RawUnit(t) /\ UnitDone(t)
        /\ job[t].identifier = "tcp://fe80::abcd"
        /\ job[t].page_result = Failure("Raw print failed: invalid literal for int()")

\* The operations a bitmap underwent when the job asked for `rotate` and
\* `margin` and they were applied in the order rotate, convert, margin
TransformOps(rotate, margin) ==
    (IF rotate \in {90, 180, 270} THEN <<"rotate">> ELSE <<>>)
    \o <<"convert">>
    \o (IF margin > 0 THEN <<"margin">> ELSE <<>>)

\* The margin came before a rotation or a conversion.
MarginBefore(ops) ==
    \E i, k \in 1..Len(ops) : i < k /\ ops[i] = "margin" /\ ops[k] \in {"rotate", "convert"}

\* C13 as stated: the bitmap of every unit of every job kind handed to a
\* driver branch was rotated, then converted, then padded; the margin never
\* came before the rotation or the conversion.
C13_FixedOrder ==
    \A t \in DOMAIN job :
        (BranchPicked(t) /\ job[t].arg_margin > 0) =>
            /\ ~MarginBefore(job[t].call.image.ops)
            /\ job[t].call.image.ops = TransformOps(job[t].arg_rotate, job[t].arg_margin)

\* C13 amended: the bitmap of an image unit and of a document page was
\* rotated, then converted, then padded; the bitmap of a text unit was padded
\* by the renderer first, then rotated, then converted, and got no margin
\* after that.
C13_OrderByKind ==
    \A t \in DOMAIN job :
        BranchPicked(t) =>
            LET ops == job[t].call.image.ops IN
            IF job[t].entry = "print_text"
            THEN ops = <<"margin">>
                       \o (IF job[t].arg_rotate \in {90, 180, 270} THEN <<"rotate">> ELSE <<>>)
                       \o <<"convert">>
            ELSE /\ ops = TransformOps(job[t].arg_rotate, job[t].arg_margin)
                 /\ ~MarginBefore(ops)

\* C13 witness: a text unit asked for rotation 90 and margin 2 reached its
\* driver branch padded, then rotated, then converted.
C13_Witness ==
    \E t \in DOMAIN job :
        /\ BranchPicked(t)
        /\ job[t].entry = "print_text"
        /\ job[t].arg_rotate = 90 /\ job[t].arg_margin = 2
        /\ job[t].call.image.ops = <<"margin", "rotate", "convert">>
        /\ <<job[t].call.image.w, job[t].call.image.h>> = <<7, 6>>

\* The rotation angles the transform accepts
ValidRotations == {0, 90, 180, 270}

\* C14: a rotation outside 0, 90, 180, 270 behaves like rotation 0: the
\* bitmap is not rotated, and the driver branch is called with what the same
\* job gets with rotation 0.
C14_InvalidRotationAsZero ==
    \A t \in DOMAIN job :
        (BranchPicked(t) /\ job[t].arg_rotate \notin ValidRotations) =>
            /\ job[t].call.image.rot = 0
            /\ \A i \in 1..Len(job[t].call.image.ops) : job[t].call.image.ops[i] # "rotate"
            /\ job[t].call.rotate =
                  DriverCall([job[t] EXCEPT !.rotate = 0], ModelOf(t), job[t].branch).rotate

\* C15: for an image or document-page unit whose decoded bitmap has size
\* (w, h), the bitmap handed to the driver branch has size
\* (w' + 2*margin, h' + 2*margin), where (w', h') is (h, w) for rotation 90
\* or 270 and (w, h) for rotation 0 or 180; margin 0 leaves the size as it is.
C15_SizeLaw ==
    \A t \in DOMAIN job :
        (/\ BranchPicked(t)
         /\ job[t].entry \in {"print_image", "print_pdf"}
         /\ job[t].arg_rotate \in ValidRotations
         /\ job[t].arg_margin >= 0) =>
            LET w == job[t].payload.size[1]
                h == job[t].payload.size[2]
                swap == job[t].arg_rotate \in {90, 270}
                w1 == IF swap THEN h ELSE w
                h1 == IF swap THEN w ELSE h
                m == job[t].arg_margin
                out == job[t].call.image
            IN /\ <<out.w, out.h>> = <<w1 + 2 * m, h1 + 2 * m>>
               /\ m = 0 => <<out.w, out.h>> = <<w1, h1>>

\* C15 witness: a 2x3 page rotated by 270 with margin 2 reached the driver
\* branch as a 7x6 bitmap.
C15_Witness ==
    \E t \in DOMAIN job :
        /\ BranchPicked(t)
        /\ job[t].entry = "print_pdf"
        /\ job[t].payload.size = <<2, 3>>
        /\ job[t].arg_rotate = 270 /\ job[t].arg_margin = 2
        /\ <<job[t].call.image.w, job[t].call.image.h>> = <<7, 6>>

\* C16: with the rasterizer capability absent, print_pdf returns
\* success=false with error type "pdf_support_missing" before it decodes the
\* payload or works on any page, and nothing is dispatched.
C16_SupportMissing ==
    \A t \in DOMAIN job :
        (job[t].entry = "print_pdf" /\ ~PDF_SUPPORT) =>
            /\ Returned(t)
            /\ job[t].result["success"] = FALSE
            /\ Get(job[t].result, "error_type", None) = Some("pdf_support_missing")
            /\ HasError(job[t].result)
            /\ DOMAIN job[t].result \cap PageFields = {}
            /\ NothingRun(t)
            /\ ~BranchPicked(t)
            /\ Delivered(t) = {}

\* C16 witness: with the capability absent, a print_pdf job for a well-formed
\* three-page document has returned.
C16_Witness ==
    \E t \in DOMAIN job :
        /\ ~PDF_SUPPORT
        /\ Returned(t)
        /\ job[t].entry = "print_pdf"
        /\ job[t].payload.base64 /\ job[t].payload.opens
        /\ job[t].payload.pages = 3 /\ job[t].payload.bad_pages = {}
        /\ AddressTruthy(AddressOf(t))

\* The payload the caller gave is malformed base64 or does not decode.
BadImage(t) ==
    /\ job[t].entry = "print_image"
    /\ ~job[t].payload.base64 \/ ~job[t].payload.decodable

BadDocument(t) ==
    /\ job[t].entry = "print_pdf"
    /\ PDF_SUPPORT
    /\ ~job[t].payload.base64 \/ ~job[t].payload.opens

\* C17: a print_image job whose payload is malformed base64 or not a
\* decodable image returns success=false with error type "image_print_error"
\* and dispatches nothing; a print_pdf job whose payload cannot be opened
\* returns success=false with error type "pdf_processing_error", has no page
\* fields, works on no page and dispatches nothing.
C17_BadPayload ==
    \A t \in DOMAIN job :
        /\ (BadImage(t) /\ job[t].pc # "image_decode") =>
              /\ Returned(t)
              /\ job[t].result["success"] = FALSE
              /\ Get(job[t].result, "error_type", None) = Some("image_print_error")
              /\ HasError(job[t].result)
              /\ ~BranchPicked(t)
              /\ EventsOf(t, 0, Branches \cup {"send"}) = {}
              /\ Delivered(t) = {}
        /\ (BadDocument(t) /\ job[t].pc # "pdf_open") =>
              /\ Returned(t)
              /\ job[t].result["success"] = FALSE
              /\ Get(job[t].result, "error_type", None) = Some("pdf_processing_error")
              /\ HasError(job[t].result)
              /\ DOMAIN job[t].result \cap PageFields = {}
              /\ NothingRun(t)
              /\ ~BranchPicked(t)
              /\ Delivered(t) = {}

\* C17 witness: a print_pdf job whose well-formed base64 holds no document
\* has returned.
C17_Witness ==
    \E t \in DOMAIN job :
        /\ Returned(t)
        /\ BadDocument(t) /\ job[t].payload.base64
        /\ job[t].result["error"] = Some("Failed to process PDF: Failed to open stream")

\* C18: the response of a document job in which a page failed carries the
\* result's error type and its per-page detail: pages_total,
\* pages_successful, pages_failed and the ordered page_results.
C18_ResponseCarriesDetail ==
    \A t \in DOMAIN job :
        (Responded(t) /\ LoopedDocument(t) /\ job[t].result["pages_failed"] >= 1) =>
            LET body == job[t].response.body
                r == job[t].result
            IN /\ {"error_type"} \cup PageFields \subseteq DOMAIN body
               /\ \A k \in {"error_type"} \cup PageFields : body[k] = r[k]

\* The job is running or over: it was given its printer record.
Started(t) == job[t].pc # "idle"

\* C19: no step of print_text, print_image or print_pdf, and no step of the
\* front door after them, changes the printer record the job was given (the
\* entry of the stored configuration), or the handler's driver-availability
\* flags and PDF_SUPPORT; the model lists are fixed sets.
C19_Frame ==
    [][ /\ PDF_SUPPORT' = PDF_SUPPORT
        /\ has_brother_ql' = has_brother_ql
        /\ has_labelprinterkit' = has_labelprinterkit
        /\ \A t \in DOMAIN job : Started(t) => job'[t].printer = job[t].printer ]_vars

\* C19 witness: a job for a record with no port key was delivered to the
\* device at port 9100 and answered, and the record still has no port key.
C19_Witness ==
    \E t \in DOMAIN job :
        /\ Responded(t)
        /\ Delivered(t) # {}
        /\ job[t].identifier = "tcp://X:9100"
        /\ "port" \notin DOMAIN job[t].printer
        /\ job[t].printer \in UnitInputs.printers

\* Positions of the device's stream where thread t's job delivered a unit
DeliveriesOf(t) == {i \in 1..Len(device) : device[i].t = t}

\* C20: with two jobs running at the same time, the pages of each document
\* job are worked on and delivered in ascending order within that job; the
\* handler holds no lock, so between two pages of one job the other job may
\* deliver (the witness).
C20_OrderWithinJob ==
    \A t \in DOMAIN job :
        job[t].entry = "print_pdf" =>
            /\ \A i, k \in DeliveriesOf(t) : i < k => device[i].page < device[k].page
            /\ \A i, k \in 1..Len(log[t]) : i < k => log[t][i].page <= log[t][k].page
            /\ \A i \in 1..Len(job[t].results) : job[t].results[i].page = i

\* C20 witness: two document jobs for the same printer; job 1 delivered its
\* page 1, then job 2 delivered a page, then job 1 delivered its page 2.
C20_Witness ==
    /\ DOMAIN job = ThreadPair
    /\ job[1].entry = "print_pdf" /\ job[2].entry = "print_pdf"
    /\ job[1].printer = job[2].printer
    /\ \E i, k, l \in 1..Len(device) :
          /\ i < k /\ k < l
          /\ device[i].t = 1 /\ device[i].page = 1
          /\ device[k].t = 2
          /\ device[l].t = 1 /\ device[l].page = 2
          /\ device[i].call.identifier = device[k].call.identifier
          /\ device[k].call.identifier = device[l].call.identifier

\* The request with no recording call raising
Quiet(request) == [request EXCEPT !.telemetry = "none"]

\* The request is one that, recording aside, print_label answers by calling
\* a handler.
Printable(t) ==
    /\ Started(t)
    /\ job[t].request.route = "/api/print"
    /\ require_api_key(Quiet(job[t].request)) = Pass
    /\ print_label_before(Quiet(job[t].request), <<job[t].printer>>) = Pass

\* C21: a recording call that raises changes nothing of a print request: the
\* handler is still called, and the caller gets the response built from the
\* handler's result; a unit that printed is not answered as failed.
C21_TelemetryIndependent ==
    \A t \in DOMAIN job :
        (Responded(t) /\ Printable(t)) =>
            /\ job[t].entry # "none"
            /\ job[t].response =
                  print_label_response(job[t].result, job[t].request.data[1]["printer_id"])
            /\ job[t].result["success"] => job[t].response.status = 200

\* Positions of thread t's log where a unit later than k was worked on
LaterThan(t, k) == {i \in 1..Len(log[t]) : log[t][i].page > k}

\* C22: every job runs to completion in the flow that called it: with every
\* call returning, a job that started eventually returns; send is called at
\* most once for each unit; and while send has not returned the job does
\* nothing else: its only step is the return of that send, and no later page
\* has been worked on.
C22_RunsToCompletion ==
    /\ \A t \in Threads : Started(t) ~> Returned(t)
    /\ [](\A t \in Threads : \A k \in 0..(MaxPages + 1) :
            Cardinality(EventsOf(t, k, {"send"})) <= 1)
    /\ [](\A t \in Threads :
            job[t].pc = "brother_ql_send" => LaterThan(t, Unit(job[t])) = {})
    /\ [][\A t \in Threads :
            (job[t].pc = "brother_ql_send" /\ job'[t] # job[t]) =>
                /\ job'[t].pc = "unit_done"
                /\ Len(log'[t]) = Len(log[t]) + 1
                /\ log'[t][Len(log'[t])] = Event(t, "send", Unit(job[t]))]_vars

\* A document of MaxPages pages returned with every page sent once.
C22_Witness ==
    \E t \in Threads :
        /\ Returned(t)
        /\ job[t].entry = "print_pdf"
        /\ job[t].page_count = MaxPages
        /\ Cardinality(DeliveriesOf(t)) = MaxPages
        /\ \A k \in 1..MaxPages : Cardinality(EventsOf(t, k, {"send"})) = 1

\* The error type of a partial failure, under the name the handler gives it
\* and under the name "partial_document_print_failure"
PartialTags == {Some("partial_pdf_print_failure"), Some("partial_document_print_failure")}

\* C23: a multi-page result carries the partial-failure error type exactly
\* when some but not all of its pages failed, 0 < pages_failed < pages_total;
\* a job in which every page failed is not labelled a partial failure.
C23_PartialIffSomeNotAll ==
    \A t \in Threads :
        (Returned(t) /\ job[t].entry = "print_pdf"
                     /\ "pages_total" \in DOMAIN job[t].result) =>
            LET r == job[t].result IN
            (r["error_type"] \in PartialTags) <=>
                (0 < r["pages_failed"] /\ r["pages_failed"] < r["pages_total"])

ProtectedRoutes == {"/api/printers", "/api/printers/<printer_id>", "/api/print"}

\* The keys of the configuration items that have both a key and a name
NamedKeys ==
    {api_keys_config[i].key : i \in {k \in 1..Len(api_keys_config) :
        Truthy(api_keys_config[k].key) /\ Truthy(api_keys_config[k].name)}}

\* The route's function was called
ViewRan(t) == job[t].view # "none" \/ job[t].entry # "none"

\* C24: on the three protected routes the route's function, and with it any
\* handler, runs only for a request whose X-API-Key is a configured key that
\* has both a key and a name; a request with no key (or an empty one) is
\* answered 401 and one with any other unconfigured key 403, the function
\* not run, record_error having returned; /health answers 200 whatever the
\* key.
C24_KeyRequired ==
    \A t \in Threads :
        LET j == job[t] IN
        j.request # EmptyDict =>
            /\ (j.request.route \in ProtectedRoutes /\ ViewRan(t))
                   => j.request.api_key \in NamedKeys
            /\ (j.request.route \in ProtectedRoutes /\ ~TelemetryRaises(j.request, "error")) =>
                   /\ ~Truthy(j.request.api_key) =>
                          /\ j.response = Response(401, ErrorBody("API key is missing"))
                          /\ ~ViewRan(t)
                   /\ (Truthy(j.request.api_key) /\ j.request.api_key \notin NamedKeys) =>
                          /\ j.response = Response(403, ErrorBody("Invalid API key"))
                          /\ ~ViewRan(t)
            /\ j.request.route = "/health" =>
                   /\ j.view = "health_check"
                   /\ j.response.status = 200

\* C24 witness: a print request that carried the key of the unnamed item
\* was answered 403.
C24_Witness ==
    \E t \in Threads :
        /\ job[t].request # EmptyDict
        /\ job[t].request.route = "/api/print"
        /\ job[t].request.api_key = Some("k-unnamed")
        /\ job[t].request.telemetry = "none"
        /\ job[t].response.status = 403

\* The handler that print_label calls for a body of this kind
HandlerOf(kind) ==
    CASE kind = "text" -> "print_text"
      [] kind = "image" -> "print_image"
      [] kind = "pdf" -> "print_pdf"
      [] OTHER -> "none"

\* C25: print_label calls a handler only for a body that passed every check
\* (a non-empty body, a printer_id, a configured printer, a payload key), and
\* then the one handler of the first payload key present; a missing or empty
\* body is answered 400, a missing printer_id 400, an unknown printer_id 404
\* and a body without text, image_base64 and pdf_base64 400, no handler
\* called, the recording calls made on the way having returned.
C25_ValidatedDispatch ==
    \A t \in Threads :
        LET j == job[t]
            data == j.request.data
        IN (j.request # EmptyDict /\ j.view = "print_label") =>
            /\ j.entry # "none" =>
                  /\ data # None /\ DOMAIN data[1] # {}
                  /\ Truthy(Field(data[1], "printer_id"))
                  /\ get_printer(<<j.printer>>, Field(data[1], "printer_id")) = j.printer
                  /\ DOMAIN data[1] \cap PayloadKeys # {}
                  /\ j.entry = HandlerOf(print_label_kind(data[1]))
            /\ ~TelemetryRaises(j.request, "error") =>
                  /\ (data = None \/ DOMAIN data[1] = {}) =>
                        /\ j.response = Response(400, ErrorBody("No JSON data provided"))
                        /\ j.entry = "none"
                  /\ (data # None /\ DOMAIN data[1] # {}
                         /\ ~Truthy(Field(data[1], "printer_id"))) =>
                        /\ j.response = Response(400, ErrorBody("printer_id is required"))
                        /\ j.entry = "none"
                  /\ (data # None /\ Truthy(Field(data[1], "printer_id"))
                         /\ get_printer(<<j.printer>>, Field(data[1], "printer_id")) = None) =>
                        /\ j.response.status = 404
                        /\ j.entry = "none"
                  /\ (data # None /\ Truthy(Field(data[1], "printer_id"))
                         /\ get_printer(<<j.printer>>, Field(data[1], "printer_id")) # None
                         /\ DOMAIN data[1] \cap PayloadKeys = {}) =>
                        /\ j.entry = "none"
                        /\ ~TelemetryRaises(j.request, "attempt") =>
                              j.response = Response(400, ErrorBody(
                                  "Either text, image_base64, or pdf_base64 is required"))

\* C25 witness: a body that names a configured printer but holds no payload
\* key was answered 400, and no handler ran.
C25_Witness ==
    \E t \in Threads :
        /\ job[t].request # EmptyDict /\ job[t].view = "print_label"
        /\ job[t].request.data = Some(Body(<<"office-printer">>, {}))
        /\ job[t].request.telemetry = "none"
        /\ job[t].response.status = 400
        /\ job[t].entry = "none"

\* How many times the bitmap was rotated
Rotations(ops) == Cardinality({i \in 1..Len(ops) : ops[i] = "rotate"})

\* C26: the requested rotation is applied once: for a job with rotate 90, 180
\* or 270 that goes to the QL driver, the bitmap handed over was rotated by
\* that angle, once, and the driver is given the setting of a bitmap that
\* needs no further rotation (what it gets for rotate 0), whatever the kind of
\* the job, so that a text job and an image job with the same rotate hand it
\* the same setting.
C26_RotationOnce ==
    \A t \in DOMAIN job :
        (/\ BranchPicked(t)
         /\ job[t].branch = "brother_ql"
         /\ job[t].arg_rotate \in {90, 180, 270}) =>
            /\ job[t].call.image.rot = job[t].arg_rotate
            /\ Rotations(job[t].call.image.ops) = 1
            /\ job[t].call.rotate = ConvertRotate(0)

\* The printer record of thread t's job has no address: the key is absent,
\* or its value is None or empty.
NoAddress(t) == Started(t) /\ ~AddressTruthy(AddressOf(t))

AddressText == Some("Printer address not specified")

\* No driver branch was called for thread t's job, and nothing was sent.
NoBranch(t) ==
    /\ job[t].branch = "none"
    /\ job[t].pc \notin Branches \cup {"brother_ql_send"}
    /\ \A k \in 0..MaxPages : EventsOf(t, k, Branches \cup {"send"}) = {}
    /\ DeliveriesOf(t) = {}

\* The bitmap of a text or image job came out of the transform.
Converted(t) == \E i \in 1..Len(job[t].image.ops) : job[t].image.ops[i] = "convert"

\* C27 as stated: with no address no driver branch is called; print_text and
\* print_image return success=false with 'Printer address not specified', and
\* print_pdf records that error for every page, pages_failed == pages_total
\* and pages_successful == 0.
C27_NoAddressText ==
    \A t \in Threads :
        NoAddress(t) =>
            /\ NoBranch(t)
            /\ (Returned(t) /\ job[t].entry \in {"print_text", "print_image"}) =>
                  /\ job[t].result["success"] = FALSE
                  /\ job[t].result["error"] = AddressText
            /\ (Returned(t) /\ LoopedDocument(t)) =>
                  LET r == job[t].result IN
                  /\ r["pages_failed"] = r["pages_total"]
                  /\ r["pages_successful"] = 0
                  /\ \A k \in 1..Len(r["page_results"]) :
                        r["page_results"][k].error = AddressText

\* C27 amended: with no address no driver branch is called and every job
\* fails; a print_text or print_image job whose bitmap came out of the
\* transform returns 'Printer address not specified' (one that failed before
\* returns that failure); print_pdf records a failure for every page, that
\* text for each page that rasterized and transformed and the page's own
\* error otherwise, so that pages_failed == pages_total and
\* pages_successful == 0.
C27_NoAddressNoBranch ==
    \A t \in Threads :
        NoAddress(t) =>
            /\ NoBranch(t)
            /\ Returned(t) => job[t].result["success"] = FALSE
            /\ (Returned(t) /\ job[t].entry \in {"print_text", "print_image"}) =>
                  (job[t].result["error"] = AddressText) <=> Converted(t)
            /\ (Returned(t) /\ LoopedDocument(t)) =>
                  LET r == job[t].result IN
                  /\ r["pages_failed"] = r["pages_total"]
                  /\ r["pages_successful"] = 0
                  /\ Len(r["page_results"]) = r["pages_total"]
                  /\ \A k \in 1..Len(r["page_results"]) :
                        /\ r["page_results"][k].success = FALSE
                        /\ r["page_results"][k].error \in
                              {AddressText, Some("cannot render page"),
                               Some("cannot transform image")}
                        /\ k \in job[t].payload.bad_pages =>
                              r["page_results"][k].error # AddressText

\* C27 witness: a document of three pages for a printer with no address
\* returned with the address error recorded for two pages and a rasterizing
\* error for the third.
C27_Witness ==
    \E t \in Threads :
        /\ NoAddress(t) /\ Returned(t) /\ LoopedDocument(t)
        /\ job[t].payload.pages = 3
        /\ job[t].result["pages_failed"] = 3
        /\ job[t].result["page_results"][1].error = AddressText
        /\ job[t].result["page_results"][2].error = Some("cannot render page")
        /\ job[t].result["page_results"][3].error = AddressText

\* The configured printers that the key k matches, by id or by name
Matching(printers, k) ==
    {i \in 1..Len(printers) :
        Field(printers[i], "id") = Some(k) \/ Field(printers[i], "name") = Some(k)}

\* No key matches two printers of the list.
Unambiguous(printers) ==
    \A k \in StoreKeys : Cardinality(Matching(printers, k)) <= 1

\* C28: no key, id or name, matches two configured printers after any
\* sequence of add_printer and remove_printer calls; add_printer returns
\* False and leaves the list as it was when the new printer has no id or
\* would make a key match two printers; and after remove_printer(k) returned
\* True, get_printer(k) is None.
C28_KeysUnambiguous ==
    LET last == printer_manager.last
        printers == printer_manager.printers
    IN /\ Unambiguous(printers)
       /\ (/\ last.op = "add_printer"
           /\ \/ "id" \notin DOMAIN last.arg
              \/ ~Unambiguous(Append(last.before, last.arg))) =>
              /\ last.result = FALSE
              /\ printers = last.before
       /\ (last.op = "remove_printer" /\ last.result) =>
              get_printer(printers, Some(last.arg)) = None

====
